---- MODULE Spec2Model ----
(***************************************************************************)
(* Catalog write engine of the game catalogue: GameDAO.create_game,        *)
(* update_game, delete_game and get_game_by_id (src/backend/game_dao.py)   *)
(* running on the single shared connection of DatabaseManager              *)
(* (src/backend/db_manager.py).                                            *)
(*                                                                         *)
(* Spec: create, update, delete and get calls, with store faults.          *)
(* SearchSpec: search_games over catalogues built by create_game.          *)
(* ScopeSpec: one get_cursor() / transaction() scope, step by step.        *)
(* InterleavedSpec: ScopeSpec with reads issued while a scope is open.     *)
(* UpdateSpec: update_game and delete_game over a wider set of payloads.   *)
(* ConnectionSpec: connect(), close() and the calls that open cursors.     *)
(* SeedSpec: seed_games_data of db/init_db.py.                             *)
(* ChangesSpec: execute_update and get_last_insert_id.                     *)
(*                                                                         *)
(* A text value (platform, tag or genre name) is a tuple of tokens: a word *)
(* token, the comma token "," or the blank token " ".  GROUP_CONCAT,       *)
(* str.split(',') and str.strip() are computed on these tuples.            *)
(***************************************************************************)
EXTENDS Integers, Sequences, FiniteSets, TLC

VARIABLES
    db,         \* the tables as the shared connection sees them (pending writes included)
    committed,  \* the tables as of the connection's last commit
    last,       \* the last call: operation, arguments, outcome, tables before the call
    nops        \* number of calls made so far

vars == <<db, committed, last, nops>>

MaxOps == 2

----------------------------------------------------------------------------
(* Values *)

PC == <<"PC">>
NS == <<"NS">>
PCNS == <<"PC", ",", "NS">>
RPG == <<"RPG">>
Coop == <<"Coop">>
Act == <<"Act">>
Unknown == <<"Unknown">>
EmptyText == <<>>

NULL == "NULL"

DevA == [name |-> "Atlus", country |-> "JP"]
DevB == [name |-> "Bungie", country |-> "US"]
DevC == [name |-> "Atlus", country |-> "US"]

EmptyDB ==
    [games |-> {}, developers |-> {}, genres |-> {}, platforms |-> {},
     preferences |-> {}, game_platforms |-> {}, game_tags |-> {}]

SetMax(S) == CHOOSE x \in S : \A y \in S : y <= x

\* rowid of the next inserted row of an INTEGER PRIMARY KEY table
NextId(ids) == IF ids = {} THEN 1 ELSE SetMax(ids) + 1

GameIds(d) == {g.game_id : g \in d.games}
DeveloperIds(d) == {r.developer_id : r \in d.developers}
GenreIds(d) == {r.genre_id : r \in d.genres}
PlatformIds(d) == {r.platform_id : r \in d.platforms}
TagIds(d) == {r.tag_id : r \in d.preferences}

----------------------------------------------------------------------------
(* Payloads: a dict is a record of values plus the set of keys present *)

Has(p, k) == k \in p.keys

----------------------------------------------------------------------------
(* Schema constraints of the store *)

\* UNIQUE (name, country) on developers
DeveloperKeyTaken(d, name, country) ==
    \E r \in d.developers : r.name = name /\ r.country = country

\* UNIQUE (name) on genres
GenreKeyTaken(d, name) == \E r \in d.genres : r.name = name

\* UNIQUE (name) on platforms
PlatformKeyTaken(d, name) == \E r \in d.platforms : r.name = name

\* UNIQUE (name, category) on preferences
TagKeyTaken(d, name, category) ==
    \E r \in d.preferences : r.name = name /\ r.category = category

\* PRAGMA foreign_keys = ON: a junction row must reference existing rows
ForeignKeysOn == TRUE

----------------------------------------------------------------------------
(* Statements *)

InsertOrIgnoreDeveloper(d, name, country) ==
    IF DeveloperKeyTaken(d, name, country) THEN d
    ELSE [d EXCEPT !.developers = @ \cup
            {[developer_id |-> NextId(DeveloperIds(d)), name |-> name, country |-> country]}]

\* fetchone()[0] of the developer lookup; 0 when no row matches
SelectDeveloperId(d, name, country) ==
    LET m == {r \in d.developers : r.name = name /\ r.country = country}
    IN IF m = {} THEN 0 ELSE (CHOOSE r \in m : TRUE).developer_id

InsertOrIgnoreGenre(d, name) ==
    IF GenreKeyTaken(d, name) THEN d
    ELSE [d EXCEPT !.genres = @ \cup {[genre_id |-> NextId(GenreIds(d)), name |-> name]}]

SelectGenreId(d, name) ==
    LET m == {r \in d.genres : r.name = name}
    IN IF m = {} THEN 0 ELSE (CHOOSE r \in m : TRUE).genre_id

InsertOrIgnorePlatform(d, name) ==
    IF PlatformKeyTaken(d, name) THEN d
    ELSE [d EXCEPT !.platforms = @ \cup
            {[platform_id |-> NextId(PlatformIds(d)), name |-> name]}]

SelectPlatformId(d, name) ==
    LET m == {r \in d.platforms : r.name = name}
    IN IF m = {} THEN 0 ELSE (CHOOSE r \in m : TRUE).platform_id

\* INSERT OR REPLACE: a conflicting row is deleted and a new row inserted
InsertOrReplaceTag(d, name, category) ==
    [d EXCEPT !.preferences =
        {r \in @ : ~(r.name = name /\ r.category = category)} \cup
        {[tag_id |-> NextId(TagIds(d)), name |-> name, category |-> category]}]

InsertOrIgnoreTag(d, name, category) ==
    IF TagKeyTaken(d, name, category) THEN d
    ELSE [d EXCEPT !.preferences = @ \cup
            {[tag_id |-> NextId(TagIds(d)), name |-> name, category |-> category]}]

SelectTagId(d, name, category) ==
    LET m == {r \in d.preferences : r.name = name /\ r.category = category}
    IN IF m = {} THEN 0 ELSE (CHOOSE r \in m : TRUE).tag_id

\* INSERT INTO games: .get() of an absent optional key stores NULL
InsertGame(d, p, developer_id, genre_id) ==
    [d EXCEPT !.games = @ \cup
        {[game_id |-> NextId(GameIds(d)),
          title |-> p.title,
          release_date |-> p.release_date,
          description |-> p.description,
          rating |-> IF Has(p, "rating") THEN p.rating ELSE NULL,
          price |-> IF Has(p, "price") THEN p.price ELSE NULL,
          image_url |-> IF Has(p, "image_url") THEN p.image_url ELSE NULL,
          developer_id |-> developer_id,
          genre_id |-> genre_id]}]

InsertGamePlatform(d, game_id, platform_id) ==
    [d EXCEPT !.game_platforms = @ \cup {<<game_id, platform_id>>}]

InsertGameTag(d, game_id, tag_id) ==
    [d EXCEPT !.game_tags = @ \cup {<<game_id, tag_id>>}]

\* the foreign keys of a junction row resolve
JunctionRefsOk(d, game_id, other_id, other_ids) ==
    ForeignKeysOn => (game_id \in GameIds(d) /\ other_id \in other_ids)

\* an update that adds the supplied platforms without clearing the old ones
DeleteGamePlatformsSkipped(d, game_id) == d

\* a tag replacement that keeps the old junction rows
DeleteGameTagsSkipped(d, game_id) == d

DeleteGamePlatforms(d, game_id) ==
    [d EXCEPT !.game_platforms = {j \in @ : j[1] # game_id}]

DeleteGameTags(d, game_id) ==
    [d EXCEPT !.game_tags = {j \in @ : j[1] # game_id}]

DeleteGameRow(d, game_id) ==
    [d EXCEPT !.games = {g \in @ : g.game_id # game_id}]

\* no junction row references the game any more
GameUnreferenced(d, game_id) ==
    ForeignKeysOn =>
        /\ \A j \in d.game_platforms : j[1] # game_id
        /\ \A j \in d.game_tags : j[1] # game_id

----------------------------------------------------------------------------
(* Execution of a transaction body.  A context carries the tables as seen  *)
(* by the cursor, whether an exception is propagating, the number of write *)
(* statements issued, the tables written and whether a store fault was    *)
(* hit.  fault = k makes the k-th                                          *)
(* write statement raise (a store fault); a statement whose constraint     *)
(* check fails raises as well.                                             *)

Begin(d) == [db |-> d, err |-> FALSE, n |-> 0, wrote |-> {}, faulted |-> FALSE]

RaiseIn(ctx) == [ctx EXCEPT !.err = TRUE]

Step(ctx, fault, table, ok, newdb) ==
    IF ctx.err THEN ctx
    ELSE IF ctx.n + 1 = fault \/ ~ok
         THEN [ctx EXCEPT !.err = TRUE, !.n = @ + 1, !.faulted = (ctx.n + 1 = fault)]
         ELSE [ctx EXCEPT !.db = newdb, !.n = @ + 1, !.wrote = @ \cup {table}]

\* conn.commit(): the pending writes become the committed tables
Commit(view, cm) == [db |-> view, committed |-> view]

\* an except branch that re-raises without conn.rollback()
RollbackSkipped(view, cm) == [db |-> view, committed |-> cm]

\* conn.rollback(): the connection's view returns to the committed tables
Rollback(view, cm) == [db |-> cm, committed |-> cm]

\* a scope exit that commits in a finally clause, whether or not the body raised
TransactionExitCommits(ctx, cm) == Commit(ctx.db, cm)

\* exit of "with db_manager.transaction()": commit, or rollback and re-raise
TransactionExit(ctx, cm) ==
    IF ctx.err THEN Rollback(ctx.db, cm) ELSE Commit(ctx.db, cm)

----------------------------------------------------------------------------
(* Text conversions of the read path *)

RECURSIVE JoinComma(_)
\* ','.join of a list of texts
JoinComma(list) ==
    IF list = <<>> THEN <<>>
    ELSE IF Len(list) = 1 THEN list[1]
    ELSE list[1] \o <<",">> \o JoinComma(Tail(list))

RECURSIVE SetToList(_)
\* the order in which the aggregate visits the rows
SetToList(S) ==
    IF S = {} THEN <<>>
    ELSE LET x == CHOOSE x \in S : TRUE IN <<x>> \o SetToList(S \ {x})

\* GROUP_CONCAT(DISTINCT name): the empty text stands for SQL NULL as well
GroupConcat(names) == JoinComma(SetToList(names))

RECURSIVE SplitFrom(_, _)
\* text.split(','): cur is the part being read
SplitFrom(text, cur) ==
    IF text = <<>> THEN <<cur>>
    ELSE IF Head(text) = "," THEN <<cur>> \o SplitFrom(Tail(text), <<>>)
    ELSE SplitFrom(Tail(text), Append(cur, Head(text)))

SplitComma(text) == SplitFrom(text, <<>>)

RECURSIVE LStrip(_)
LStrip(t) == IF t # <<>> /\ Head(t) = " " THEN LStrip(Tail(t)) ELSE t

RECURSIVE RStrip(_)
RStrip(t) ==
    IF t # <<>> /\ t[Len(t)] = " " THEN RStrip(SubSeq(t, 1, Len(t) - 1)) ELSE t

\* str.strip()
Strip(t) == RStrip(LStrip(t))

\* [x.strip() for x in col.split(',')] if col else []
ParseList(col) ==
    IF col = <<>> THEN <<>>
    ELSE LET parts == SplitComma(col) IN [i \in 1..Len(parts) |-> Strip(parts[i])]

ToSet(list) == {list[i] : i \in 1..Len(list)}

----------------------------------------------------------------------------
(* get_game_by_id *)

NotFound == [found |-> FALSE]

PlatformNamesOf(d, game_id) ==
    {r.name : r \in {r \in d.platforms : <<game_id, r.platform_id>> \in d.game_platforms}}

TagNamesOf(d, game_id, category) ==
    {r.name : r \in {r \in d.preferences :
                        r.category = category /\ <<game_id, r.tag_id>> \in d.game_tags}}

\* a lookup whose WHERE g.game_id = ? is missing: fetchone() of all games
GetGameByIdAnyRow(d, game_id) ==
    IF d.games = {} THEN NotFound
    ELSE LET g == CHOOSE g \in d.games : TRUE
             dv == CHOOSE r \in d.developers : r.developer_id = g.developer_id
             gn == CHOOSE r \in d.genres : r.genre_id = g.genre_id
         IN [found |-> TRUE, game_id |-> g.game_id, title |-> g.title,
             release_date |-> g.release_date, description |-> g.description,
             rating |-> g.rating, price |-> g.price, image_url |-> g.image_url,
             developer |-> dv, genre |-> gn,
             platforms |-> ParseList(GroupConcat(PlatformNamesOf(d, g.game_id))),
             genre_tags |-> ParseList(GroupConcat(TagNamesOf(d, g.game_id, "genre"))),
             preference_tags |->
                ParseList(GroupConcat(TagNamesOf(d, g.game_id, "preference")))]

GetGameById(d, game_id) ==
    LET rows == {x \in d.games \X d.developers \X d.genres :
                    /\ x[1].game_id = game_id
                    /\ x[1].developer_id = x[2].developer_id
                    /\ x[1].genre_id = x[3].genre_id}
    IN IF rows = {} THEN NotFound
       ELSE LET x == CHOOSE x \in rows : TRUE
            IN [found |-> TRUE,
                game_id |-> x[1].game_id,
                title |-> x[1].title,
                release_date |-> x[1].release_date,
                description |-> x[1].description,
                rating |-> x[1].rating,
                price |-> x[1].price,
                image_url |-> x[1].image_url,
                developer |-> x[2],
                genre |-> x[3],
                platforms |-> ParseList(GroupConcat(PlatformNamesOf(d, game_id))),
                genre_tags |-> ParseList(GroupConcat(TagNamesOf(d, game_id, "genre"))),
                preference_tags |->
                    ParseList(GroupConcat(TagNamesOf(d, game_id, "preference")))]

----------------------------------------------------------------------------
(* create_game *)

\* the genre name create_game resolves: explicit name, else first genre tag, else "Unknown"
CreateGenreName(p) ==
    LET explicit == IF Has(p, "genre") /\ Has(p, "genre.name") THEN p.genre ELSE EmptyText
        fallback == IF explicit = EmptyText /\ Has(p, "genre_tags") /\ p.genre_tags # <<>>
                    THEN p.genre_tags[1] ELSE explicit
    IN IF fallback = EmptyText THEN Unknown ELSE fallback

RECURSIVE InsertPlatforms(_, _, _, _)
\* for platform_name in ...: get-or-create the platform, insert the junction row
InsertPlatforms(ctx, game_id, names, fault) ==
    IF names = <<>> THEN ctx
    ELSE LET c1 == Step(ctx, fault, "platforms", TRUE,
                        InsertOrIgnorePlatform(ctx.db, Head(names)))
             platform_id == SelectPlatformId(c1.db, Head(names))
             c2 == Step(c1, fault, "game_platforms",
                        JunctionRefsOk(c1.db, game_id, platform_id, PlatformIds(c1.db)),
                        InsertGamePlatform(c1.db, game_id, platform_id))
         IN InsertPlatforms(c2, game_id, Tail(names), fault)

RECURSIVE InsertTags(_, _, _, _, _)
\* for tag_name in ...: get-or-create the tag of the category, insert the junction row
InsertTags(ctx, game_id, names, category, fault) ==
    IF names = <<>> THEN ctx
    ELSE LET c1 == Step(ctx, fault, "preferences", TRUE,
                        InsertOrIgnoreTag(ctx.db, Head(names), category))
             tag_id == SelectTagId(c1.db, Head(names), category)
             c2 == Step(c1, fault, "game_tags",
                        JunctionRefsOk(c1.db, game_id, tag_id, TagIds(c1.db)),
                        InsertGameTag(c1.db, game_id, tag_id))
         IN InsertTags(c2, game_id, Tail(names), category, fault)

RequiredKeys == {"title", "release_date", "description"}

\* only the title is subscripted; release_date and description are read with .get()
RequiredPresentTitleOnly(p) == "title" \in p.keys

\* game_data['title'], game_data['release_date'], game_data['description'] all resolve
RequiredPresent(p) == RequiredKeys \subseteq p.keys

\* the body of "with self.db_manager.transaction() as cursor" in create_game
CreateGameBody(d, p, fault) ==
    LET c0 == Begin(d)
        c1 == Step(c0, fault, "developers", TRUE,
                   InsertOrIgnoreDeveloper(c0.db, p.developer.name, p.developer.country))
        developer_id == SelectDeveloperId(c1.db, p.developer.name, p.developer.country)
        genre_name == CreateGenreName(p)
        c2 == Step(c1, fault, "genres", TRUE, InsertOrIgnoreGenre(c1.db, genre_name))
        genre_id == SelectGenreId(c2.db, genre_name)
        game_id == NextId(GameIds(c2.db))
        c3 == IF c2.err THEN c2
              ELSE IF ~RequiredPresent(p) THEN RaiseIn(c2)
              ELSE Step(c2, fault, "games", TRUE, InsertGame(c2.db, p, developer_id, genre_id))
        c4 == InsertPlatforms(c3, game_id,
                              IF Has(p, "platforms") THEN p.platforms ELSE <<>>, fault)
        c5 == InsertTags(c4, game_id,
                         IF Has(p, "genre_tags") THEN p.genre_tags ELSE <<>>, "genre", fault)
        c6 == InsertTags(c5, game_id,
                         IF Has(p, "preference_tags") THEN p.preference_tags ELSE <<>>,
                         "preference", fault)
    IN [ctx |-> c6, game_id |-> game_id]

----------------------------------------------------------------------------
(* update_game *)

ScalarKeys == {"title", "release_date", "description", "rating", "price", "image_url"}

\* an UPDATE of all six columns, an omitted key read with .get() as NULL
UpdateGameColumnsAll(d, game_id, p) ==
    [d EXCEPT !.games =
        {IF g.game_id # game_id THEN g
         ELSE [g EXCEPT
                 !.title = IF Has(p, "title") THEN p.title ELSE @,
                 !.release_date = IF Has(p, "release_date") THEN p.release_date ELSE @,
                 !.description = IF Has(p, "description") THEN p.description ELSE @,
                 !.rating = IF Has(p, "rating") THEN p.rating ELSE NULL,
                 !.price = IF Has(p, "price") THEN p.price ELSE NULL,
                 !.image_url = IF Has(p, "image_url") THEN p.image_url ELSE NULL]
         : g \in @}]

\* UPDATE games SET <the supplied columns> WHERE game_id = ?
UpdateGameColumns(d, game_id, p) ==
    [d EXCEPT !.games =
        {IF g.game_id # game_id THEN g
         ELSE [g EXCEPT
                 !.title = IF Has(p, "title") THEN p.title ELSE @,
                 !.release_date = IF Has(p, "release_date") THEN p.release_date ELSE @,
                 !.description = IF Has(p, "description") THEN p.description ELSE @,
                 !.rating = IF Has(p, "rating") THEN p.rating ELSE @,
                 !.price = IF Has(p, "price") THEN p.price ELSE @,
                 !.image_url = IF Has(p, "image_url") THEN p.image_url ELSE @]
         : g \in @}]

\* a developer section that resolves the supplied key as create_game does
UpdateDeveloperResolve(d, developer_id, name, country) ==
    InsertOrIgnoreDeveloper(d, name, country)

\* UPDATE developers SET name = ?, country = ? WHERE developer_id = ?
UpdateDeveloper(d, developer_id, name, country) ==
    [d EXCEPT !.developers =
        {IF r.developer_id = developer_id
         THEN [r EXCEPT !.name = name, !.country = country] ELSE r : r \in @}]

\* a developers table without the UNIQUE (name, country) constraint
DeveloperRenameUnchecked(d, developer_id, name, country) == TRUE

\* the renamed developer row keeps (name, country) unique
DeveloperRenameOk(d, developer_id, name, country) ==
    ~\E r \in d.developers :
        r.developer_id # developer_id /\ r.name = name /\ r.country = country

\* UPDATE games SET genre_id = ? WHERE game_id = ?
UpdateGameGenre(d, game_id, genre_id) ==
    [d EXCEPT !.games =
        {IF g.game_id = game_id THEN [g EXCEPT !.genre_id = genre_id] ELSE g : g \in @}]

\* the renamed genre row keeps name unique
GenreRenameOk(d, genre_id, name) ==
    ~\E r \in d.genres : r.genre_id # genre_id /\ r.name = name

\* a genre section that inserts the name as a new genres row
RenameGenreInserts(d, genre_id, name) == InsertOrIgnoreGenre(d, name)

\* UPDATE genres SET name = ? WHERE genre_id = ?
RenameGenre(d, genre_id, name) ==
    [d EXCEPT !.genres =
        {IF r.genre_id = genre_id THEN [r EXCEPT !.name = name] ELSE r : r \in @}]

\* the genre name update_game resolves
UpdateGenreName(p) ==
    IF Has(p, "genre") THEN p.genre
    ELSE IF Has(p, "genre_tags") /\ p.genre_tags # <<>> THEN p.genre_tags[1]
    ELSE Unknown

\* the genre section of update_game: repoint the game or rename its genre row
UpdateGenre(ctx, game_id, p, existing_game, fault) ==
    IF ctx.err THEN ctx
    ELSE IF Has(p, "genre") /\ ~Has(p, "genre.name") THEN RaiseIn(ctx)
    ELSE LET genre_name == UpdateGenreName(p)
             existing_genre == SelectGenreId(ctx.db, genre_name)
         IN IF existing_genre # 0
            THEN Step(ctx, fault, "games", TRUE,
                      UpdateGameGenre(ctx.db, game_id, existing_genre))
            ELSE Step(ctx, fault, "genres",
                      GenreRenameOk(ctx.db, existing_game.genre.genre_id, genre_name),
                      RenameGenre(ctx.db, existing_game.genre.genre_id, genre_name))

\* the body of "with self.db_manager.transaction() as cursor" in update_game
UpdateGameBody(d, game_id, p, existing_game, fault) ==
    LET c0 == Begin(d)
        c1 == IF p.keys \cap ScalarKeys # {}
              THEN Step(c0, fault, "games", TRUE, UpdateGameColumns(c0.db, game_id, p))
              ELSE c0
        c2 == IF Has(p, "developer")
              THEN Step(c1, fault, "developers",
                        DeveloperRenameOk(c1.db, existing_game.developer.developer_id,
                                          p.developer.name, p.developer.country),
                        UpdateDeveloper(c1.db, existing_game.developer.developer_id,
                                        p.developer.name, p.developer.country))
              ELSE c1
        c3 == UpdateGenre(c2, game_id, p, existing_game, fault)
        c4 == IF Has(p, "platforms")
              THEN InsertPlatforms(
                       Step(c3, fault, "game_platforms", TRUE,
                            DeleteGamePlatforms(c3.db, game_id)),
                       game_id, p.platforms, fault)
              ELSE c3
        c5 == IF Has(p, "genre_tags") \/ Has(p, "preference_tags")
              THEN LET t0 == Step(c4, fault, "game_tags", TRUE,
                                  DeleteGameTags(c4.db, game_id))
                       t1 == InsertTags(t0, game_id,
                                        IF Has(p, "genre_tags") THEN p.genre_tags ELSE <<>>,
                                        "genre", fault)
                   IN InsertTags(t1, game_id,
                                 IF Has(p, "preference_tags") THEN p.preference_tags
                                 ELSE <<>>,
                                 "preference", fault)
              ELSE c4
    IN c5

----------------------------------------------------------------------------
(* delete_game *)

\* a delete that removes only the games row, counting on a cascade, on a
\* connection that does not enforce foreign keys
DeleteGameRowOnly(d, game_id, fault) ==
    Step(Begin(d), fault, "games", TRUE, DeleteGameRow(d, game_id))

\* a delete that removes the games row before its junction rows
DeleteGameRowFirst(d, game_id, fault) ==
    LET c0 == Begin(d)
        c1 == Step(c0, fault, "games", GameUnreferenced(c0.db, game_id),
                   DeleteGameRow(c0.db, game_id))
        c2 == Step(c1, fault, "game_platforms", TRUE, DeleteGamePlatforms(c1.db, game_id))
        c3 == Step(c2, fault, "game_tags", TRUE, DeleteGameTags(c2.db, game_id))
    IN c3

\* DELETE FROM platforms / preferences of the rows no junction row references
DeleteUnusedDimensions(d) ==
    [d EXCEPT
        !.platforms = {r \in @ : \E j \in d.game_platforms : j[2] = r.platform_id},
        !.preferences = {r \in @ : \E j \in d.game_tags : j[2] = r.tag_id}]

\* a delete that also collects the platforms and tags left without a game
DeleteGameCollecting(d, game_id, fault) ==
    LET c0 == Begin(d)
        c1 == Step(c0, fault, "game_platforms", TRUE, DeleteGamePlatforms(c0.db, game_id))
        c2 == Step(c1, fault, "game_tags", TRUE, DeleteGameTags(c1.db, game_id))
        c3 == Step(c2, fault, "games", GameUnreferenced(c2.db, game_id),
                   DeleteGameRow(c2.db, game_id))
        c4 == Step(c3, fault, "platforms", TRUE, DeleteUnusedDimensions(c3.db))
    IN c4

\* the body of "with self.db_manager.transaction() as cursor" in delete_game
DeleteGameBody(d, game_id, fault) ==
    LET c0 == Begin(d)
        c1 == Step(c0, fault, "game_platforms", TRUE, DeleteGamePlatforms(c0.db, game_id))
        c2 == Step(c1, fault, "game_tags", TRUE, DeleteGameTags(c1.db, game_id))
        c3 == Step(c2, fault, "games", GameUnreferenced(c2.db, game_id),
                   DeleteGameRow(c2.db, game_id))
    IN c3

----------------------------------------------------------------------------
(* search_games.  A joined row is one row of                               *)
(*   games JOIN developers JOIN genres                                     *)
(*         LEFT JOIN game_platforms LEFT JOIN platforms                    *)
(*         LEFT JOIN game_tags LEFT JOIN preferences                       *)
(* where a game without platforms (tags) is joined to the all-NULL         *)
(* platform (tag) row, which has id 0 here.                                *)

NullPlatform == [platform_id |-> 0, name |-> EmptyText]

NullTag == [tag_id |-> 0, name |-> EmptyText, category |-> "NULL"]

\* a filter is supplied: 'key' in filters and filters['key']
Supplied(f, k) == Has(f, k) /\ f[k] # (IF k = "country" THEN "" ELSE EmptyText)

\* filters.get(key, [])
TagFilter(f, k) == IF Has(f, k) THEN f[k] ELSE <<>>

\* a WHERE clause without the title de-duplication
RepresentativeUnchecked(d, g) == TRUE

\* g.game_id IN (SELECT MIN(game_id) FROM games GROUP BY title), taking MAX
RepresentativeIsHighest(d, g) ==
    \A h \in d.games : h.title = g.title => h.game_id <= g.game_id

\* g.game_id IN (SELECT MIN(game_id) FROM games GROUP BY title)
Representative(d, g) ==
    \A h \in d.games : h.title = g.title => g.game_id <= h.game_id

PlatformRowsOf(d, game_id) ==
    LET rows == {r \in d.platforms : <<game_id, r.platform_id>> \in d.game_platforms}
    IN IF rows = {} THEN {NullPlatform} ELSE rows

TagRowsOf(d, game_id) ==
    LET rows == {r \in d.preferences : <<game_id, r.tag_id>> \in d.game_tags}
    IN IF rows = {} THEN {NullTag} ELSE rows

\* the FROM clause, restricted by the title de-duplication of the WHERE clause
JoinedRows(d) ==
    UNION {{[g |-> g, dev |-> dv, gen |-> gn, p |-> p, pref |-> t] :
                p \in PlatformRowsOf(d, g.game_id), t \in TagRowsOf(d, g.game_id)} :
           <<g, dv, gn>> \in {x \in d.games \X d.developers \X d.genres :
                                /\ x[1].developer_id = x[2].developer_id
                                /\ x[1].genre_id = x[3].genre_id
                                /\ Representative(d, x[1])}}

PlatformCondition(f, r) ==
    Supplied(f, "platform") => (r.p.platform_id # 0 /\ r.p.name = f.platform)

CountryCondition(f, r) == Supplied(f, "country") => r.dev.country = f.country

\* legacy conditions whose preference filter compares the tag name only
LegacyWhereNameOnly(f, r) ==
    /\ PlatformCondition(f, r)
    /\ Supplied(f, "genre") => r.gen.name = f.genre
    /\ Supplied(f, "preference") => (r.pref.tag_id # 0 /\ r.pref.name = f.preference)
    /\ CountryCondition(f, r)

\* the conditions _search_games_legacy joins with AND
LegacyWhere(f, r) ==
    /\ PlatformCondition(f, r)
    /\ Supplied(f, "genre") => r.gen.name = f.genre
    /\ Supplied(f, "preference") =>
            (r.pref.tag_id # 0 /\ r.pref.name = f.preference
                /\ r.pref.category = "preference")
    /\ CountryCondition(f, r)

\* tag conditions that compare the name only
TagConditionsAnyCategory(genre_tags, preference_tags, r) ==
    /\ r.pref.tag_id # 0
    /\ \/ \E i \in 1..Len(genre_tags) : r.pref.name = genre_tags[i]
       \/ \E i \in 1..Len(preference_tags) : r.pref.name = preference_tags[i]

\* (pref.name = ? AND pref.category = 'genre') OR ... 'preference') OR ...
TagConditions(genre_tags, preference_tags, r) ==
    /\ r.pref.tag_id # 0
    /\ \/ \E i \in 1..Len(genre_tags) :
             r.pref.name = genre_tags[i] /\ r.pref.category = "genre"
       \/ \E i \in 1..Len(preference_tags) :
             r.pref.name = preference_tags[i] /\ r.pref.category = "preference"

\* the conditions _search_games_by_tags adds to the WHERE clause
RelevanceWhere(f, r) ==
    /\ TagConditions(TagFilter(f, "genres"), TagFilter(f, "preferences"), r)
    /\ PlatformCondition(f, r)
    /\ CountryCondition(f, r)

\* COUNT(DISTINCT CASE WHEN gt.tag_id IS NOT NULL THEN gt.game_id END)
MatchCount(rows) == Cardinality({r.g.game_id : r \in {r \in rows : r.pref.tag_id # 0}})

\* one output row of the GROUP BY, built from the joined rows of one game
SummaryRow(rows, relevance) ==
    LET r == CHOOSE r \in rows : TRUE
    IN [game_id |-> r.g.game_id,
        title |-> r.g.title,
        release_date |-> r.g.release_date,
        description |-> r.g.description,
        rating |-> r.g.rating,
        price |-> r.g.price,
        image_url |-> r.g.image_url,
        developer |-> r.dev.name,
        country |-> r.dev.country,
        genre |-> r.gen.name,
        platforms |->
            ParseList(GroupConcat({x.p.name : x \in {x \in rows : x.p.platform_id # 0}})),
        preference_tags |->
            ParseList(GroupConcat({x.pref.name :
                                    x \in {x \in rows : x.pref.category = "preference"}})),
        match_count |-> IF relevance THEN MatchCount(rows) ELSE 0]

\* GROUP BY g.game_id, ...: the rows that passed the WHERE clause, by game
GroupByGame(rows, relevance) ==
    {SummaryRow({r \in rows : r.g.game_id = id}, relevance) :
        id \in {r.g.game_id : r \in rows}}

\* ORDER BY k1 DESC, k2 DESC on the key pairs
Precedes(a, b) == a[1] > b[1] \/ (a[1] = b[1] /\ a[2] >= b[2])

RECURSIVE OrderBy(_, _)
\* the orders ORDER BY can return; rows with equal keys come in any order
OrderBy(rows, key) ==
    IF rows = {} THEN {<<>>}
    ELSE UNION {{<<x>> \o t : t \in OrderBy(rows \ {x}, key)} :
                x \in {x \in rows : \A y \in rows : Precedes(key[x], key[y])}}

\* an ORDER BY g.release_date ASC whatever the sort key
LegacyKeyAscending(sort_by, row) == <<0, 0 - row.release_date>>

\* "DESC" if sort_by == 'release_date_desc' else "ASC"
LegacyKey(sort_by, row) ==
    IF sort_by = "release_date_desc" THEN <<0, row.release_date>>
    ELSE <<0, 0 - row.release_date>>

\* ORDER BY match_count DESC, g.release_date DESC
RelevanceKey(row) == <<row.match_count, row.release_date>>

\* _search_games_legacy: the result lists the query can return
SearchGamesLegacy(d, f, sort_by) ==
    LET out == GroupByGame({r \in JoinedRows(d) : LegacyWhere(f, r)}, FALSE)
    IN OrderBy(out, [row \in out |-> LegacyKey(sort_by, row)])

\* _search_games_by_tags: the result lists the query can return
SearchGamesByTags(d, f, sort_by) ==
    LET out == GroupByGame({r \in JoinedRows(d) : RelevanceWhere(f, r)}, TRUE)
    IN OrderBy(out, [row \in out |-> RelevanceKey(row)])

\* if genre_tags or preference_tags: relevance mode, else legacy mode
RelevanceMode(f) == TagFilter(f, "genres") # <<>> \/ TagFilter(f, "preferences") # <<>>

SearchGamesResults(d, f, sort_by) ==
    IF RelevanceMode(f) THEN SearchGamesByTags(d, f, sort_by)
    ELSE SearchGamesLegacy(d, f, sort_by)

----------------------------------------------------------------------------
(* Inputs *)

Blank ==
    [keys |-> {}, title |-> "", release_date |-> 0, description |-> "",
     rating |-> NULL, price |-> NULL, image_url |-> NULL,
     developer |-> [name |-> "", country |-> ""], genre |-> EmptyText,
     platforms |-> <<>>, genre_tags |-> <<>>, preference_tags |-> <<>>]

\* p extended by the keys and values q supplies
Merge(p, q) ==
    [keys |-> p.keys \cup q.keys,
     title |-> IF Has(q, "title") THEN q.title ELSE p.title,
     release_date |-> IF Has(q, "release_date") THEN q.release_date ELSE p.release_date,
     description |-> IF Has(q, "description") THEN q.description ELSE p.description,
     rating |-> IF Has(q, "rating") THEN q.rating ELSE p.rating,
     price |-> IF Has(q, "price") THEN q.price ELSE p.price,
     image_url |-> IF Has(q, "image_url") THEN q.image_url ELSE p.image_url,
     developer |-> IF Has(q, "developer") THEN q.developer ELSE p.developer,
     genre |-> IF Has(q, "genre") THEN q.genre ELSE p.genre,
     platforms |-> IF Has(q, "platforms") THEN q.platforms ELSE p.platforms,
     genre_tags |-> IF Has(q, "genre_tags") THEN q.genre_tags ELSE p.genre_tags,
     preference_tags |->
        IF Has(q, "preference_tags") THEN q.preference_tags ELSE p.preference_tags]

Scalars(title, date) ==
    [Blank EXCEPT !.keys = ScalarKeys, !.title = title, !.release_date = date,
                  !.description = "d1", !.rating = "r8", !.price = "p10",
                  !.image_url = "i1"]

WithDeveloper(dev) == [Blank EXCEPT !.keys = {"developer"}, !.developer = dev]

WithGenre(name) == [Blank EXCEPT !.keys = {"genre", "genre.name"}, !.genre = name]

\* a genre object that has no 'name' key
GenreNoName == [Blank EXCEPT !.keys = {"genre"}]

WithPlatforms(list) == [Blank EXCEPT !.keys = {"platforms"}, !.platforms = list]

WithGenreTags(list) == [Blank EXCEPT !.keys = {"genre_tags"}, !.genre_tags = list]

WithPreferenceTags(list) ==
    [Blank EXCEPT !.keys = {"preference_tags"}, !.preference_tags = list]

WithLists(pl, gt, pt) ==
    Merge(WithPlatforms(pl), Merge(WithGenreTags(gt), WithPreferenceTags(pt)))

Without(p, k) == [p EXCEPT !.keys = @ \ {k}]

ListChoices ==
    {WithLists(<<>>, <<>>, <<>>),
     WithLists(<<PC>>, <<RPG>>, <<Coop>>),
     WithLists(<<NS, PC>>, <<Coop, RPG>>, <<RPG>>),
     WithLists(<<PCNS>>, <<>>, <<Coop>>)}

GenreChoices == {Blank, GenreNoName, WithGenre(RPG), WithGenre(Act)}

CompletePayloads ==
    {Merge(Scalars("T2", 2), Merge(WithDeveloper(dev), Merge(g, l))) :
        dev \in {DevA, DevB}, g \in GenreChoices, l \in ListChoices}

TestGame ==
    Merge(Scalars("T2", 2),
          Merge(WithDeveloper(DevB), Merge(WithGenre(Act), WithLists(<<PC>>, <<RPG>>, <<Coop>>))))

\* payloads that lack a required key or the optional scalars
IncompletePayloads ==
    {Without(TestGame, k) : k \in RequiredKeys}
    \cup {[TestGame EXCEPT !.keys = @ \ {"rating", "price", "image_url"}]}

CreatePayloads == CompletePayloads \cup IncompletePayloads

RatingOnly == [Blank EXCEPT !.keys = {"rating"}, !.rating = "r9"]

ScalarUpdates ==
    {RatingOnly,
     [Blank EXCEPT !.keys = {"title", "rating"}, !.title = "T1", !.rating = "r9"],
     [Blank EXCEPT !.keys = {"release_date", "description", "price", "image_url"},
                   !.release_date = 1, !.description = "d2", !.price = "p20",
                   !.image_url = "i2"]}

DeveloperUpdates == {WithDeveloper(dev) : dev \in {DevA, DevB, DevC}}

GenreUpdates == {GenreNoName, WithGenre(RPG), WithGenre(Act)}

PlatformUpdates == {WithPlatforms(l) : l \in {<<>>, <<NS, PC>>}}

TagUpdates ==
    {WithGenreTags(<<>>), WithPreferenceTags(<<RPG>>),
     Merge(WithGenreTags(<<Act, Coop>>), WithPreferenceTags(<<Coop>>))}

\* a partial payload: nothing, one group of keys, a rating with one other group,
\* or a genre object together with tag lists
UpdatePayloads ==
    LET groups == ScalarUpdates \cup DeveloperUpdates \cup GenreUpdates
                    \cup PlatformUpdates \cup TagUpdates
    IN {Blank} \cup groups
       \cup {Merge(RatingOnly, q) : q \in groups}
       \cup {Merge(g, t) : g \in GenreUpdates, t \in TagUpdates}

\* the ids a caller passes: every id in use and the next unused one
GameIdArgs(d) == 1..NextId(GameIds(d))

----------------------------------------------------------------------------
(* Initial catalogue *)

SeedPayloads ==
    <<Merge(Scalars("T1", 1),
            Merge(WithDeveloper(DevA), Merge(WithGenre(RPG), WithLists(<<PC>>, <<RPG>>, <<Coop>>)))),
      Merge(Scalars("T1", 2),
            Merge(WithDeveloper(DevA),
                  Merge(WithGenre(RPG), WithLists(<<NS, PC>>, <<Coop, RPG>>, <<RPG>>)))),
      Merge(Scalars("T2", 2),
            Merge(WithDeveloper(DevB), Merge(WithGenre(Act), WithLists(<<>>, <<>>, <<>>))))>>

RECURSIVE CreateAll(_, _)
\* the catalogue after create_game of each payload in turn
CreateAll(d, payloads) ==
    IF payloads = <<>> THEN d
    ELSE CreateAll(CreateGameBody(d, Head(payloads), 0).ctx.db, Tail(payloads))

SeededDB == CreateAll(EmptyDB, SeedPayloads)

NoCall ==
    [op |-> "none", game_id |-> 0, p |-> Blank, result |-> "none", wrote |-> {},
     faulted |-> FALSE, pre |-> EmptyDB]

Init ==
    /\ db \in {EmptyDB, SeededDB}
    /\ committed = db
    /\ last = NoCall
    /\ nops = 0

----------------------------------------------------------------------------
(* Calls *)

CreateGame(p, fault) ==
    /\ nops < MaxOps
    /\ LET r == CreateGameBody(db, p, fault)
           out == TransactionExit(r.ctx, committed)
       IN /\ fault <= r.ctx.n
          /\ db' = out.db
          /\ committed' = out.committed
          /\ last' = [op |-> "create",
                      game_id |-> IF r.ctx.err THEN 0 ELSE r.game_id,
                      p |-> p,
                      result |-> IF r.ctx.err THEN "error" ELSE "ok",
                      wrote |-> r.ctx.wrote,
                      faulted |-> r.ctx.faulted,
                      pre |-> db]
    /\ nops' = nops + 1

UpdateGame(game_id, p, fault) ==
    /\ nops < MaxOps
    /\ LET existing_game == GetGameById(db, game_id)
           read == Commit(db, committed)
       IN IF ~existing_game.found
          THEN /\ fault = 0
               /\ db' = read.db
               /\ committed' = read.committed
               /\ last' = [op |-> "update", game_id |-> game_id, p |-> p,
                           result |-> "false", wrote |-> {}, faulted |-> FALSE, pre |-> db]
          ELSE LET ctx == UpdateGameBody(read.db, game_id, p, existing_game, fault)
                   out == TransactionExit(ctx, read.committed)
               IN /\ fault <= ctx.n
                  /\ db' = out.db
                  /\ committed' = out.committed
                  /\ last' = [op |-> "update", game_id |-> game_id, p |-> p,
                              result |-> IF ctx.err THEN "error" ELSE "true",
                              wrote |-> ctx.wrote, faulted |-> ctx.faulted, pre |-> db]
    /\ nops' = nops + 1

DeleteGame(game_id, fault) ==
    /\ nops < MaxOps
    /\ LET existing_game == GetGameById(db, game_id)
           read == Commit(db, committed)
       IN IF ~existing_game.found
          THEN /\ fault = 0
               /\ db' = read.db
               /\ committed' = read.committed
               /\ last' = [op |-> "delete", game_id |-> game_id, p |-> Blank,
                           result |-> "false", wrote |-> {}, faulted |-> FALSE, pre |-> db]
          ELSE LET ctx == DeleteGameBody(read.db, game_id, fault)
                   out == TransactionExit(ctx, read.committed)
               IN /\ fault <= ctx.n
                  /\ db' = out.db
                  /\ committed' = out.committed
                  /\ last' = [op |-> "delete", game_id |-> game_id, p |-> Blank,
                              result |-> IF ctx.err THEN "error" ELSE "true",
                              wrote |-> ctx.wrote, faulted |-> ctx.faulted, pre |-> db]
    /\ nops' = nops + 1

GetGame(game_id) ==
    /\ nops < MaxOps
    /\ LET read == Commit(db, committed)
       IN /\ db' = read.db
          /\ committed' = read.committed
          /\ last' = [op |-> "get", game_id |-> game_id, p |-> Blank,
                      result |-> IF GetGameById(db, game_id).found THEN "found" ELSE "none",
                      wrote |-> {}, faulted |-> FALSE, pre |-> db]
    /\ nops' = nops + 1

MaxFault == 5

Faults == 0..MaxFault

Next ==
    \/ \E p \in CreatePayloads, fault \in Faults : CreateGame(p, fault)
    \/ \E game_id \in GameIdArgs(db), p \in UpdatePayloads, fault \in Faults :
            UpdateGame(game_id, p, fault)
    \/ \E game_id \in GameIdArgs(db), fault \in Faults : DeleteGame(game_id, fault)
    \/ \E game_id \in GameIdArgs(db) : GetGame(game_id)

Spec == Init /\ [][Next]_vars

----------------------------------------------------------------------------
(* Searches over a catalogue that create_game calls build up *)

BlankFilter ==
    [keys |-> {}, platform |-> EmptyText, genre |-> EmptyText, preference |-> EmptyText,
     country |-> "", genres |-> <<>>, preferences |-> <<>>]

\* a filters dict: each argument is <<key present, value>>
MakeFilter(pl, ge, pr, co, gs, ps) ==
    [keys |-> {k \in {"platform", "genre", "preference", "country", "genres",
                      "preferences"} :
                  \/ k = "platform" /\ pl[1]
                  \/ k = "genre" /\ ge[1]
                  \/ k = "preference" /\ pr[1]
                  \/ k = "country" /\ co[1]
                  \/ k = "genres" /\ gs[1]
                  \/ k = "preferences" /\ ps[1]},
     platform |-> pl[2], genre |-> ge[2], preference |-> pr[2], country |-> co[2],
     genres |-> gs[2], preferences |-> ps[2]]

Absent(v) == <<FALSE, v>>

Given(v) == <<TRUE, v>>

\* filters without tag lists (or with empty ones)
LegacyFilters ==
    {MakeFilter(pl, ge, pr, co, Absent(<<>>), Absent(<<>>)) :
        pl \in {Absent(EmptyText), Given(EmptyText), Given(PC), Given(NS)},
        ge \in {Absent(EmptyText), Given(RPG), Given(Act)},
        pr \in {Absent(EmptyText), Given(Coop), Given(RPG)},
        co \in {Absent(""), Given("JP"), Given("US")}}
    \cup {MakeFilter(Given(PC), Absent(EmptyText), Absent(EmptyText), Absent(""),
                     Given(<<>>), Given(<<>>))}

\* filters with a genre-tag list or a preference-tag list
TagFilters ==
    {f \in {MakeFilter(pl, ge, Absent(EmptyText), co, gs, ps) :
                pl \in {Absent(EmptyText), Given(PC)},
                ge \in {Absent(EmptyText), Given(RPG)},
                co \in {Absent(""), Given("JP")},
                gs \in {Absent(<<>>), Given(<<RPG>>), Given(<<RPG, Coop>>), Given(<<Act>>)},
                ps \in {Absent(<<>>), Given(<<Coop>>), Given(<<RPG>>),
                        Given(<<Coop, RPG>>)}} :
        RelevanceMode(f)}

SearchFilters == LegacyFilters \cup TagFilters

SortKeys == {"release_date_desc", "release_date_asc", "rating_desc"}

\* the games added before searching
SearchSeedPayloads ==
    {Merge(Scalars("T3", 1),
           Merge(WithDeveloper(DevA),
                 Merge(WithGenre(RPG), WithLists(<<PC, NS>>, <<RPG>>, <<Coop, Act>>)))),
     Merge(Scalars("T4", 3),
           Merge(WithDeveloper(DevB),
                 Merge(WithGenre(Act), WithLists(<<PC>>, <<Act>>, <<Coop>>)))),
     Merge(Scalars("T3", 2),
           Merge(WithDeveloper(DevB),
                 Merge(WithGenre(RPG), WithLists(<<NS>>, <<Coop>>, <<RPG>>)))),
     Merge(Scalars("T1", 3),
           Merge(WithDeveloper(DevA), Merge(WithGenre(Act), WithLists(<<>>, <<>>, <<>>))))}

\* search_games(filters, sort_by): a read through execute_query
SearchGames(f, sort_by) ==
    /\ nops < MaxOps
    /\ LET read == Commit(db, committed)
       IN /\ db' = read.db
          /\ committed' = read.committed
    /\ \E rows \in SearchGamesResults(db, f, sort_by) :
          last' = [op |-> "search", game_id |-> 0, p |-> Blank, result |-> "ok",
                   wrote |-> {}, faulted |-> FALSE, pre |-> db,
                   filters |-> f, sort_by |-> sort_by, rows |-> rows]
    /\ nops' = nops + 1

SearchNext ==
    \/ \E p \in SearchSeedPayloads : CreateGame(p, 0)
    \/ \E f \in SearchFilters, sort_by \in SortKeys : SearchGames(f, sort_by)

SearchSpec == Init /\ [][SearchNext]_vars

----------------------------------------------------------------------------
(* One get_cursor() / transaction() scope, statement by statement.  Under  *)
(* ScopeSpec, last holds the scope: its kind, the position in the context  *)
(* manager, the exception the body raised, the calls made on the           *)
(* connection and cursor at exit, and the exception that reached the       *)
(* caller.                                                                 *)

NoException == "none"

\* the exceptions a body raises: a missing key, a constraint, a store fault
BodyExceptions == {"KeyError", "IntegrityError", "OperationalError"}

ScopeKinds == {"get_cursor", "transaction"}

\* the write statements a body issues in ScopeSpec
BodyStatements(d) ==
    {InsertOrIgnoreDeveloper(d, DevA.name, DevA.country),
     InsertOrIgnoreDeveloper(d, DevB.name, DevB.country),
     InsertOrIgnoreGenre(d, RPG),
     InsertOrIgnorePlatform(d, PC),
     InsertOrIgnoreTag(d, Coop, "preference")}

MaxStatements == 2

\* a context manager whose commit sits in the finally clause
AfterYieldAlwaysCommit(exc) == "commit"

\* try: yield cursor; conn.commit()  /  except Exception as e: ...
AfterYield(exc) == IF exc = NoException THEN "commit" ELSE "except"

\* conn = self.connect(); cursor = conn.cursor(); control passes to the body
ScopeEnter(kind) ==
    /\ nops < MaxOps
    /\ IF last.op = "scope" THEN last.pc = "exited" ELSE TRUE
    /\ last' = [op |-> "scope", kind |-> kind, pc |-> "body", exc |-> NoException,
                events |-> <<>>, cursor |-> "open", propagated |-> NoException,
                statements |-> 0, pre |-> db, view |-> db]
    /\ UNCHANGED <<db, committed, nops>>

\* cursor.execute(...) of a write statement inside the with block
BodyExecute ==
    /\ last.op = "scope" /\ last.pc = "body"
    /\ last.statements < MaxStatements
    /\ \E d \in BodyStatements(db) :
          /\ db' = d
          /\ last' = [last EXCEPT !.statements = @ + 1, !.view = d]
    /\ UNCHANGED <<committed, nops>>

\* the with block ends, by falling off its end or by a return statement
BodyReturns ==
    /\ last.op = "scope" /\ last.pc = "body"
    /\ last' = [last EXCEPT !.pc = AfterYield(NoException)]
    /\ UNCHANGED <<db, committed, nops>>

\* the with block raises e
BodyRaises(e) ==
    /\ last.op = "scope" /\ last.pc = "body"
    /\ last' = [last EXCEPT !.pc = AfterYield(e), !.exc = e]
    /\ UNCHANGED <<db, committed, nops>>

\* conn.commit() after the yield
ScopeCommit ==
    /\ last.op = "scope" /\ last.pc = "commit"
    /\ LET out == Commit(db, committed)
       IN /\ db' = out.db
          /\ committed' = out.committed
    /\ last' = [last EXCEPT !.pc = "finally", !.events = Append(@, "commit")]
    /\ UNCHANGED nops

\* except Exception as e: conn.rollback(); raise e
ScopeRollback ==
    /\ last.op = "scope" /\ last.pc = "except"
    /\ LET out == Rollback(db, committed)
       IN /\ db' = out.db
          /\ committed' = out.committed
    /\ last' = [last EXCEPT !.pc = "finally", !.events = Append(@, "rollback"),
                            !.propagated = last.exc]
    /\ UNCHANGED nops

\* finally: cursor.close(); the scope is left, a pending exception goes on
ScopeClose ==
    /\ last.op = "scope" /\ last.pc = "finally"
    /\ last' = [last EXCEPT !.pc = "exited", !.events = Append(@, "close"),
                            !.cursor = "closed"]
    /\ nops' = nops + 1
    /\ UNCHANGED <<db, committed>>

ScopeNext ==
    \/ \E kind \in ScopeKinds : ScopeEnter(kind)
    \/ BodyExecute
    \/ BodyReturns
    \/ \E e \in BodyExceptions : BodyRaises(e)
    \/ ScopeCommit
    \/ ScopeRollback
    \/ ScopeClose

ScopeSpec == Init /\ [][ScopeNext]_vars

----------------------------------------------------------------------------
(* A read issued on the shared connection while a transaction() scope is   *)
(* open *)

\* execute_query inside the with block of an open transaction(): its own
\* get_cursor() scope runs on the same connection and commits on exit
ReadInScope ==
    /\ last.op = "scope" /\ last.pc = "body" /\ last.kind = "transaction"
    /\ LET read == Commit(db, committed)
       IN /\ db' = read.db
          /\ committed' = read.committed
    /\ UNCHANGED <<last, nops>>

InterleavedNext == ScopeNext \/ ReadInScope

InterleavedSpec == Init /\ [][InterleavedNext]_vars

----------------------------------------------------------------------------
(* The connection a DatabaseManager holds.  Under ConnectionSpec, last     *)
(* holds the manager: _connection (0 for None), the connections that are   *)
(* open, the number of connections made so far, the connections handed to  *)
(* cursors since the last close(), the last call and the manager before it *)

MaxCalls == 5

NewManager ==
    [op |-> "manager", call |-> "init", connection |-> 0, open |-> {}, made |-> 0,
     used |-> {}, before |-> [connection |-> 0, open |-> {}, made |-> 0]]

Manager == IF last.op = "manager" THEN last ELSE NewManager

\* a connect() that opens a connection on every call
ManagerConnectAlways(m) ==
    [m EXCEPT !.connection = m.made + 1, !.made = @ + 1, !.open = @ \cup {m.made + 1}]

\* connect(): if self._connection is None, open one; return self._connection
ManagerConnect(m) ==
    IF m.connection = 0
    THEN [m EXCEPT !.connection = m.made + 1, !.made = @ + 1, !.open = @ \cup {m.made + 1}]
    ELSE m

\* close(): if self._connection is not None, close it and set it to None
ManagerClose(m) ==
    IF m.connection # 0
    THEN [m EXCEPT !.open = @ \ {m.connection}, !.connection = 0, !.used = {}]
    ELSE m

\* conn = self.connect(); cursor = conn.cursor()
ManagerCursor(m) ==
    LET c == ManagerConnect(m) IN [c EXCEPT !.used = @ \cup {c.connection}]

Called(m, call, before) ==
    [m EXCEPT !.call = call,
              !.before = [connection |-> before.connection, open |-> before.open,
                          made |-> before.made]]

ManagerCall(call, m) ==
    /\ nops < MaxCalls
    /\ last' = Called(m, call, Manager)
    /\ nops' = nops + 1
    /\ UNCHANGED <<db, committed>>

Connect == ManagerCall("connect", ManagerConnect(Manager))

Close == ManagerCall("close", ManagerClose(Manager))

\* __enter__: self.connect()
Enter == ManagerCall("enter", ManagerConnect(Manager))

\* __exit__: self.close()
Exit == ManagerCall("exit", ManagerClose(Manager))

\* get_cursor(), transaction() or execute_query(): a cursor of connect()
OpenCursor(kind) == ManagerCall(kind, ManagerCursor(Manager))

ConnectionNext ==
    \/ Connect
    \/ Close
    \/ Enter
    \/ Exit
    \/ \E kind \in ScopeKinds \cup {"execute_query"} : OpenCursor(kind)

ConnectionSpec == Init /\ [][ConnectionNext]_vars

----------------------------------------------------------------------------
(* Seeding (db/init_db.py).  A seeding context carries the connection's    *)
(* view of the tables, the committed tables, whether an exception is       *)
(* propagating and the number of statements issued.  Under SeedSpec, last  *)
(* holds the seeding call: its games, the tables before it and whether it  *)
(* raised.                                                                 *)

SeedBegin(d, cm) == [db |-> d, committed |-> cm, err |-> FALSE, n |-> 0]

\* game[k] for each k of keys: a missing key raises KeyError
SeedRequire(ctx, game, keys) ==
    IF ctx.err \/ keys \subseteq game.keys THEN ctx ELSE [ctx EXCEPT !.err = TRUE]

\* cursor.execute of one INSERT; the fault-th statement raises
SeedExecute(ctx, fault, newdb) ==
    IF ctx.err THEN ctx
    ELSE IF ctx.n + 1 = fault THEN [ctx EXCEPT !.err = TRUE, !.n = @ + 1]
    ELSE [ctx EXCEPT !.db = newdb, !.n = @ + 1]

\* conn.commit() inside get_or_create_*: everything pending becomes committed
SeedCommit(ctx) == IF ctx.err THEN ctx ELSE [ctx EXCEPT !.committed = ctx.db]

\* get_or_create_*: SELECT the row; when absent, INSERT it and conn.commit()
GetOrCreate(ctx, fault, found, newdb) ==
    IF ctx.err \/ found THEN ctx ELSE SeedCommit(SeedExecute(ctx, fault, newdb))

RECURSIVE SeedPlatforms(_, _, _, _)
SeedPlatforms(ctx, game_id, names, fault) ==
    IF names = <<>> \/ ctx.err THEN ctx
    ELSE LET c1 == GetOrCreate(ctx, fault, PlatformKeyTaken(ctx.db, Head(names)),
                               InsertOrIgnorePlatform(ctx.db, Head(names)))
             c2 == SeedExecute(c1, fault,
                       InsertGamePlatform(c1.db, game_id,
                                          SelectPlatformId(c1.db, Head(names))))
         IN SeedPlatforms(c2, game_id, Tail(names), fault)

RECURSIVE SeedTags(_, _, _, _, _)
SeedTags(ctx, game_id, names, category, fault) ==
    IF names = <<>> \/ ctx.err THEN ctx
    ELSE LET c1 == GetOrCreate(ctx, fault, TagKeyTaken(ctx.db, Head(names), category),
                               InsertOrIgnoreTag(ctx.db, Head(names), category))
             c2 == SeedExecute(c1, fault,
                       InsertGameTag(c1.db, game_id,
                                     SelectTagId(c1.db, Head(names), category)))
         IN SeedTags(c2, game_id, Tail(names), category, fault)

\* the body of "for game in games" for one game
SeedGame(ctx, game, fault) ==
    LET c0 == SeedRequire(ctx, game, {"developer", "country"})
        c1 == GetOrCreate(c0, fault,
                  DeveloperKeyTaken(c0.db, game.developer.name, game.developer.country),
                  InsertOrIgnoreDeveloper(c0.db, game.developer.name,
                                          game.developer.country))
        c2 == SeedRequire(c1, game, {"genre"})
        c3 == GetOrCreate(c2, fault, GenreKeyTaken(c2.db, game.genre),
                          InsertOrIgnoreGenre(c2.db, game.genre))
        c4 == SeedRequire(c3, game, {"title", "release_date", "description", "image_url"})
        game_id == NextId(GameIds(c4.db))
        c5 == SeedExecute(c4, fault,
                  InsertGame(c4.db, game,
                      SelectDeveloperId(c4.db, game.developer.name, game.developer.country),
                      SelectGenreId(c4.db, game.genre)))
        c6 == SeedRequire(c5, game, {"platforms"})
        c7 == SeedPlatforms(c6, game_id, game.platforms, fault)
        c8 == SeedRequire(c7, game, {"tags"})
        c9 == SeedTags(c8, game_id, game.genre_tags, "genre", fault)
    IN SeedTags(c9, game_id, game.preference_tags, "preference", fault)

RECURSIVE SeedGames(_, _, _)
SeedGames(ctx, games, fault) ==
    IF games = <<>> \/ ctx.err THEN ctx
    ELSE SeedGames(SeedGame(ctx, Head(games), fault), Tail(games), fault)

\* a game of the input list
SeedEntry(title, date, dev, genre, pl, gt, pt) ==
    [Merge(Merge(Scalars(title, date), WithDeveloper(dev)),
           Merge(WithGenre(genre), WithLists(pl, gt, pt)))
        EXCEPT !.keys = {"title", "release_date", "description", "image_url", "developer",
                         "country", "genre", "platforms", "tags"}]

SeedEntries ==
    {SeedEntry("T1", 1, DevA, RPG, <<PC>>, <<RPG>>, <<Coop>>),
     SeedEntry("T2", 2, DevB, Act, <<NS, PC>>, <<>>, <<Coop>>),
     Without(SeedEntry("T3", 3, DevB, Act, <<NS>>, <<Act>>, <<>>), "tags"),
     Without(SeedEntry("T4", 3, DevA, Coop, <<>>, <<>>, <<>>), "title")}

SeedLists ==
    {<<>>} \cup {<<g>> : g \in SeedEntries} \cup {<<g, h>> : g, h \in SeedEntries}

\* seed_games_data(conn, games): BEGIN, the games, commit; rollback and re-raise
SeedGamesData(games, fault) ==
    /\ nops < MaxOps
    /\ LET ctx == SeedGames(SeedBegin(db, committed), games, fault)
           exit == IF ctx.err THEN Rollback(ctx.db, ctx.committed)
                   ELSE Commit(ctx.db, ctx.committed)
       IN /\ db' = exit.db
          /\ committed' = exit.committed
          /\ last' = [op |-> "seed", games |-> games, fault |-> fault,
                      raised |-> ctx.err, pre |-> committed, statements |-> ctx.n]
    /\ nops' = nops + 1

SeedNext == \E games \in SeedLists, fault \in 0..MaxFault : SeedGamesData(games, fault)

SeedSpec == Init /\ [][SeedNext]_vars

----------------------------------------------------------------------------
(* The counters of the manager's SQLite connection.  Under ChangesSpec,    *)
(* last holds them: total_changes (rows inserted, updated or deleted since *)
(* the connection was opened), the row id of the last inserted row (0      *)
(* before any insert), the last call and what get_last_insert_id returned. *)

NewCounters ==
    [op |-> "changes", call |-> "connect", total_changes |-> 0, lastrowid |-> 0,
     result |-> 0]

Counters == IF last.op = "changes" THEN last ELSE NewCounters

\* execute_update(query, params): the statement in a transaction() scope; a
\* statement that violates a constraint raises and changes nothing
ExecuteUpdate(call, ok, newdb, changes, rowid) ==
    /\ nops < MaxCalls
    /\ LET out == IF ok THEN Commit(newdb, committed) ELSE Rollback(db, committed)
       IN /\ db' = out.db
          /\ committed' = out.committed
    /\ last' = [Counters EXCEPT
                    !.call = call,
                    !.total_changes = @ + (IF ok THEN changes ELSE 0),
                    !.lastrowid = IF ok /\ rowid # 0 THEN rowid ELSE @]
    /\ nops' = nops + 1

\* INSERT INTO platforms (name) VALUES (?)
InsertPlatformRow(name) ==
    ExecuteUpdate("insert", ~PlatformKeyTaken(db, name), InsertOrIgnorePlatform(db, name),
                  1, NextId(PlatformIds(db)))

\* UPDATE platforms SET name = ? WHERE name = ?
UpdatePlatformRows(old, new) ==
    LET matched == {r \in db.platforms : r.name = old}
    IN ExecuteUpdate("update",
           matched = {} \/ new = old \/ ~PlatformKeyTaken(db, new),
           [db EXCEPT !.platforms = (@ \ matched) \cup
                {[platform_id |-> r.platform_id, name |-> new] : r \in matched}],
           Cardinality(matched), 0)

\* DELETE FROM platforms WHERE name = ?
DeletePlatformRows(name) ==
    LET matched == {r \in db.platforms : r.name = name}
    IN ExecuteUpdate("delete",
           \A r \in matched : \A j \in db.game_platforms : j[2] # r.platform_id,
           [db EXCEPT !.platforms = @ \ matched],
           Cardinality(matched), 0)

\* get_last_insert_id() on sqlite: return conn.total_changes
GetLastInsertId ==
    /\ nops < MaxCalls
    /\ last' = [Counters EXCEPT !.call = "get_last_insert_id",
                                !.result = Counters.total_changes]
    /\ nops' = nops + 1
    /\ UNCHANGED <<db, committed>>

PlatformNames == {PC, NS, PCNS}

ChangesNext ==
    \/ \E name \in PlatformNames : InsertPlatformRow(name)
    \/ \E old, new \in PlatformNames : UpdatePlatformRows(old, new)
    \/ \E name \in PlatformNames : DeletePlatformRows(name)
    \/ GetLastInsertId

ChangesSpec == Init /\ [][ChangesNext]_vars

----------------------------------------------------------------------------
(* Updates and deletes of the games of a catalogue, with a wider choice of *)
(* payloads than Spec *)

WideUpdates ==
    {WithGenre(Coop),
     Merge(WithGenre(Coop), WithPlatforms(<<PC>>)),
     WithPlatforms(<<PCNS, NS>>),
     Merge(WithPlatforms(<<NS>>), WithPreferenceTags(<<Act, RPG>>)),
     Merge(GenreNoName, WithGenreTags(<<Act, Coop>>)),
     Merge(WithGenre(EmptyText), WithGenreTags(<<Coop>>)),
     WithGenreTags(<<Coop, RPG>>)}

UpdatePayloadsWide == UpdatePayloads \cup WideUpdates

UpdateNext ==
    \/ \E game_id \in GameIdArgs(db), p \in UpdatePayloadsWide, fault \in Faults :
            UpdateGame(game_id, p, fault)
    \/ \E game_id \in GameIdArgs(db) : DeleteGame(game_id, 0)

UpdateSpec == Init /\ [][UpdateNext]_vars

----------------------------------------------------------------------------
(* Properties *)

Unchanged == db = last.pre /\ committed = last.pre

\* C1: a create_game call that raises after the games row was inserted leaves
\* every table exactly as it was before the call.
C1_CreateAtomic ==
    (last.op = "create" /\ last.result = "error" /\ "games" \in last.wrote) => Unchanged

\* a create_game call that hit a store fault on its first platform junction
\* insert, after it had inserted the games row and the platform row
C1_Witness ==
    /\ last.op = "create"
    /\ last.result = "error"
    /\ last.faulted
    /\ {"games", "platforms"} \subseteq last.wrote
    /\ "game_platforms" \notin last.wrote
    /\ ~PlatformKeyTaken(last.pre, last.p.platforms[1])

\* C2: create_game with title, release_date or description absent fails and
\* rolls back the developer and genre rows it inserted; all tables are as before.
C2_MissingRequiredRollsBack ==
    (last.op = "create" /\ ~(RequiredKeys \subseteq last.p.keys)) =>
        (last.result = "error" /\ Unchanged)

\* a create_game call without a required key whose developer and genre were new
C2_Witness ==
    /\ last.op = "create"
    /\ ~(RequiredKeys \subseteq last.p.keys)
    /\ {"developers", "genres"} \subseteq last.wrote
    /\ ~DeveloperKeyTaken(last.pre, last.p.developer.name, last.p.developer.country)
    /\ ~GenreKeyTaken(last.pre, CreateGenreName(last.p))
    /\ last.result = "error"

\* C3: an update_game or delete_game call that raises partway through its
\* transaction leaves every table exactly as it was before the call.
C3_UpdateDeleteAtomic ==
    (last.op \in {"update", "delete"} /\ last.result = "error") => Unchanged

\* an update_game whose developer rename was rejected by UNIQUE (name, country)
\* after the scalar columns had been updated
C3_Witness ==
    /\ last.op = "update"
    /\ last.result = "error"
    /\ ~last.faulted
    /\ Has(last.p, "developer")
    /\ last.wrote = {"games"}
    /\ ~DeveloperRenameOk(last.pre,
                          GetGameById(last.pre, last.game_id).developer.developer_id,
                          last.p.developer.name, last.p.developer.country)

NoDuplicateKeys(d) ==
    /\ \A r1, r2 \in d.developers :
          (r1.name = r2.name /\ r1.country = r2.country) => r1 = r2
    /\ \A r1, r2 \in d.genres : r1.name = r2.name => r1 = r2
    /\ \A r1, r2 \in d.platforms : r1.name = r2.name => r1 = r2
    /\ \A r1, r2 \in d.preferences :
          (r1.name = r2.name /\ r1.category = r2.category) => r1 = r2

\* C4: in every state no two developers share (name, country), no two genres or
\* platforms share a name, and no two preferences share (name, category).
C4_NaturalKeysUnique == NoDuplicateKeys(db) /\ NoDuplicateKeys(committed)

\* a successful update_game with a developer sub-object that changed a
\* developers row while another developers row exists
C4_Witness ==
    /\ last.op = "update"
    /\ last.result = "true"
    /\ Has(last.p, "developer")
    /\ db.developers # last.pre.developers
    /\ Cardinality(db.developers) >= 2

GameRow(d, game_id) == CHOOSE g \in d.games : g.game_id = game_id

Names(list) == {list[i] : i \in 1..Len(list)}

RowsNamed(rows, name) == {r \in rows : r.name = name}

\* C5: a successful create_game that supplies a natural key already in the store
\* makes the new game reference the existing row and adds no row for that key.
C5_ResolveIdempotent ==
    (last.op = "create" /\ last.result = "ok") =>
        LET g == GameRow(db, last.game_id)
            p == last.p
            pre == last.pre
            gname == CreateGenreName(p)
        IN /\ DeveloperKeyTaken(pre, p.developer.name, p.developer.country) =>
                /\ g.developer_id =
                       SelectDeveloperId(pre, p.developer.name, p.developer.country)
                /\ db.developers = pre.developers
           /\ GenreKeyTaken(pre, gname) =>
                /\ g.genre_id = SelectGenreId(pre, gname)
                /\ RowsNamed(db.genres, gname) = RowsNamed(pre.genres, gname)
           /\ \A name \in Names(p.platforms) :
                PlatformKeyTaken(pre, name) =>
                    /\ <<g.game_id, SelectPlatformId(pre, name)>> \in db.game_platforms
                    /\ RowsNamed(db.platforms, name) = RowsNamed(pre.platforms, name)
           /\ \A name \in Names(p.genre_tags) :
                TagKeyTaken(pre, name, "genre") =>
                    /\ <<g.game_id, SelectTagId(pre, name, "genre")>> \in db.game_tags
                    /\ {r \in RowsNamed(db.preferences, name) : r.category = "genre"}
                         = {r \in RowsNamed(pre.preferences, name) : r.category = "genre"}
           /\ \A name \in Names(p.preference_tags) :
                TagKeyTaken(pre, name, "preference") =>
                    /\ <<g.game_id, SelectTagId(pre, name, "preference")>> \in db.game_tags
                    /\ {r \in RowsNamed(db.preferences, name) : r.category = "preference"}
                         = {r \in RowsNamed(pre.preferences, name) :
                                r.category = "preference"}

\* a successful create_game whose developer, genre, a platform, a genre tag and
\* a preference tag were all in the store already, referenced by an earlier game
C5_Witness ==
    /\ last.op = "create"
    /\ last.result = "ok"
    /\ last.pre.games # {}
    /\ DeveloperKeyTaken(last.pre, last.p.developer.name, last.p.developer.country)
    /\ GenreKeyTaken(last.pre, CreateGenreName(last.p))
    /\ \E name \in Names(last.p.platforms) : PlatformKeyTaken(last.pre, name)
    /\ \E name \in Names(last.p.genre_tags) : TagKeyTaken(last.pre, name, "genre")
    /\ \E name \in Names(last.p.preference_tags) :
            TagKeyTaken(last.pre, name, "preference")

JunctionsReferGames(d) ==
    /\ \A j \in d.game_platforms : j[1] \in GameIds(d)
    /\ \A j \in d.game_tags : j[1] \in GameIds(d)

\* C6: in every committed state each game_platforms row and each game_tags row
\* references a game_id that exists in games.
C6_NoOrphanJunctions == JunctionsReferGames(committed) /\ JunctionsReferGames(db)

\* a committed delete_game of a game that had platform and tag junction rows
C6_Witness ==
    /\ last.op = "delete"
    /\ last.result = "true"
    /\ committed = db
    /\ \E j \in last.pre.game_platforms : j[1] = last.game_id
    /\ \E j \in last.pre.game_tags : j[1] = last.game_id

\* C7: delete_game of an existing game, no store fault occurring, returns True;
\* afterwards get_game_by_id returns None and no junction row has its game_id.
\* (The games row can only go once its junction rows are gone: deleting it while
\* referenced raises.)
C7_DeleteCascadeSafe ==
    (last.op = "delete" /\ GetGameById(last.pre, last.game_id).found /\ ~last.faulted) =>
        /\ last.result = "true"
        /\ ~GetGameById(db, last.game_id).found
        /\ \A j \in db.game_platforms \cup db.game_tags : j[1] # last.game_id
        /\ last.game_id \notin GameIds(db)

\* a delete_game that returned True for a game with junction rows of both kinds,
\* other games still being in the store
C7_Witness ==
    /\ last.op = "delete"
    /\ last.result = "true"
    /\ \E j \in last.pre.game_platforms : j[1] = last.game_id
    /\ \E j \in last.pre.game_tags : j[1] = last.game_id
    /\ db.games # {}
    /\ db.game_tags # {}

\* C8: after an accepted create_game, get_game_by_id of the returned id yields the
\* developer, genre name, platforms, genre_tags and preference_tags of the payload
\* (as sets).
C8_RoundTrip ==
    (last.op = "create" /\ last.result = "ok") =>
        LET r == GetGameById(db, last.game_id)
            p == last.p
        IN /\ r.found
           /\ r.developer.name = p.developer.name
           /\ r.developer.country = p.developer.country
           /\ (Has(p, "genre.name") => r.genre.name = p.genre)
           /\ ToSet(r.platforms) = Names(p.platforms)
           /\ ToSet(r.genre_tags) = Names(p.genre_tags)
           /\ ToSet(r.preference_tags) = Names(p.preference_tags)

GamePlatformIds(d, game_id) == {j[2] : j \in {j \in d.game_platforms : j[1] = game_id}}

GameTagIds(d, game_id) == {j[2] : j \in {j \in d.game_tags : j[1] = game_id}}

\* C9: a successful update_game whose payload holds only scalar fields sets those
\* columns to the supplied values and leaves the other scalar columns and the
\* platform and tag memberships of the game unchanged.
C9_PartialUpdateIsolation ==
    (last.op = "update" /\ last.result = "true"
        /\ last.p.keys # {} /\ last.p.keys \subseteq ScalarKeys) =>
        LET g == GameRow(db, last.game_id)
            g0 == GameRow(last.pre, last.game_id)
            p == last.p
        IN /\ g.title = IF Has(p, "title") THEN p.title ELSE g0.title
           /\ g.release_date =
                IF Has(p, "release_date") THEN p.release_date ELSE g0.release_date
           /\ g.description =
                IF Has(p, "description") THEN p.description ELSE g0.description
           /\ g.rating = IF Has(p, "rating") THEN p.rating ELSE g0.rating
           /\ g.price = IF Has(p, "price") THEN p.price ELSE g0.price
           /\ g.image_url = IF Has(p, "image_url") THEN p.image_url ELSE g0.image_url
           /\ GamePlatformIds(db, last.game_id) = GamePlatformIds(last.pre, last.game_id)
           /\ GameTagIds(db, last.game_id) = GameTagIds(last.pre, last.game_id)
           /\ db.platforms = last.pre.platforms
           /\ db.preferences = last.pre.preferences

\* a successful update_game of the rating alone, of a game that has a price, an
\* image, platforms and tags
C9_Witness ==
    /\ last.op = "update"
    /\ last.result = "true"
    /\ last.p.keys = {"rating"}
    /\ GameRow(last.pre, last.game_id).rating # last.p.rating
    /\ GameRow(last.pre, last.game_id).price # NULL
    /\ GamePlatformIds(last.pre, last.game_id) # {}
    /\ GameTagIds(last.pre, last.game_id) # {}

\* C10: a successful update_game whose payload has neither a genre object nor a
\* genre-tag list leaves the game's genre_id and every genres row unchanged.
C10_GenreUntouchedWithoutGenreKeys ==
    (last.op = "update" /\ last.result = "true"
        /\ ~Has(last.p, "genre") /\ ~Has(last.p, "genre_tags")) =>
        /\ GameRow(db, last.game_id).genre_id = GameRow(last.pre, last.game_id).genre_id
        /\ db.genres = last.pre.genres

----------------------------------------------------------------------------
(* Properties of search_games, checked under SearchSpec *)

Rows == last.rows

NoFilterSupplied(f) ==
    ~RelevanceMode(f)
    /\ \A k \in {"platform", "genre", "preference", "country"} : ~Supplied(f, k)

LowestIdOfTitle(d, title) == SetMax({0 - g.game_id : g \in {g \in d.games : g.title = title}})

\* C11: a search returns at most one row per title, each returned row is the
\* games row with the lowest game_id of its title, and a legacy search without
\* filters returns one row for every title in the store.
C11_TitleDedup ==
    last.op = "search" =>
        /\ \A i, j \in 1..Len(Rows) : Rows[i].title = Rows[j].title => i = j
        /\ \A i \in 1..Len(Rows) :
              /\ Rows[i].game_id \in GameIds(db)
              /\ GameRow(db, Rows[i].game_id).title = Rows[i].title
              /\ 0 - Rows[i].game_id = LowestIdOfTitle(db, Rows[i].title)
        /\ NoFilterSupplied(last.filters) =>
              {Rows[i].title : i \in 1..Len(Rows)} = {g.title : g \in db.games}

\* an unfiltered legacy search of a catalogue in which two games share a title
C11_Witness ==
    /\ last.op = "search"
    /\ NoFilterSupplied(last.filters)
    /\ \E g, h \in db.games : g.title = h.title /\ g.game_id < h.game_id
    /\ Len(Rows) >= 2
    /\ Len(Rows) < Cardinality(db.games)

SuppliedTags(f) ==
    {<<TagFilter(f, "genres")[i], "genre">> : i \in 1..Len(TagFilter(f, "genres"))}
    \cup {<<TagFilter(f, "preferences")[i], "preference">> :
            i \in 1..Len(TagFilter(f, "preferences"))}

AttachedTags(d, game_id) ==
    {<<r.name, r.category>> :
        r \in {r \in d.preferences : <<game_id, r.tag_id>> \in d.game_tags}}

\* the number of distinct supplied tags attached to the game
Score(d, f, game_id) == Cardinality(SuppliedTags(f) \cap AttachedTags(d, game_id))

\* C12: a relevance-mode result is ordered by the number of distinct supplied
\* tags attached to the game, descending, then by release date, descending.
C12_RelevanceOrder ==
    (last.op = "search" /\ RelevanceMode(last.filters)) =>
        \A i, j \in 1..Len(Rows) :
            i < j =>
                Precedes(<<Score(db, last.filters, Rows[i].game_id), Rows[i].release_date>>,
                         <<Score(db, last.filters, Rows[j].game_id), Rows[j].release_date>>)

----------------------------------------------------------------------------
(* Properties of the write calls, continued *)

\* C13: update_game and delete_game called with an id for which no game exists
\* return False without raising, issue no write statement and leave every table
\* unchanged.
C13_AbsentIdIsNoOp ==
    (last.op \in {"update", "delete"} /\ last.game_id \notin GameIds(last.pre)) =>
        /\ last.result = "false"
        /\ last.wrote = {}
        /\ ~last.faulted
        /\ Unchanged

\* an update_game with a developer sub-object for an id that is not in a
\* catalogue that holds other games
C13_Witness ==
    /\ last.op = "update"
    /\ last.game_id \notin GameIds(last.pre)
    /\ last.pre.games # {}
    /\ Has(last.p, "developer")
    /\ last.result = "false"

Count(events, e) == Cardinality({i \in 1..Len(events) : events[i] = e})

----------------------------------------------------------------------------
(* Properties of search_games, continued (SearchSpec) *)

Descending(rows) ==
    \A i, j \in 1..Len(rows) : i < j => rows[i].release_date >= rows[j].release_date

Ascending(rows) ==
    \A i, j \in 1..Len(rows) : i < j => rows[i].release_date <= rows[j].release_date

KnownSortKeys == {"release_date_desc", "release_date_asc"}

\* C15: a legacy search with a sort key other than 'release_date_desc' and
\* 'release_date_asc' succeeds and returns its rows in descending release-date
\* order, as a search with 'release_date_desc' does.
C15_UnknownSortKeyDescending ==
    (last.op = "search" /\ ~RelevanceMode(last.filters)
        /\ last.sort_by \notin KnownSortKeys) =>
        /\ last.result = "ok"
        /\ Descending(Rows)
        /\ Rows \in SearchGamesLegacy(db, last.filters, "release_date_desc")

\* the representative games that satisfy every supplied legacy filter
LegacyExpected(d, f) ==
    {g.game_id : g \in {g \in d.games :
        /\ Representative(d, g)
        /\ Supplied(f, "platform") => f.platform \in PlatformNamesOf(d, g.game_id)
        /\ Supplied(f, "genre") =>
              \E r \in d.genres : r.genre_id = g.genre_id /\ r.name = f.genre
        /\ Supplied(f, "preference") =>
              f.preference \in TagNamesOf(d, g.game_id, "preference")
        /\ Supplied(f, "country") =>
              \E r \in d.developers :
                  r.developer_id = g.developer_id /\ r.country = f.country}}

RowIds(rows) == {rows[i].game_id : i \in 1..Len(rows)}

\* C16: a legacy search returns exactly the representative games (lowest id of
\* their title) that have the platform, the genre name, the preference tag of
\* category 'preference' and the developer country supplied; an absent or empty
\* filter restricts nothing.
C16_LegacyFilters ==
    (last.op = "search" /\ ~RelevanceMode(last.filters)) =>
        /\ RowIds(Rows) = LegacyExpected(db, last.filters)
        /\ Len(Rows) = Cardinality(LegacyExpected(db, last.filters))

\* a legacy search with all four filters supplied that returns a game and
\* leaves out a representative game
C16_Witness ==
    /\ last.op = "search"
    /\ ~RelevanceMode(last.filters)
    /\ \A k \in {"platform", "genre", "preference", "country"} : Supplied(last.filters, k)
    /\ Len(Rows) >= 1
    /\ \E g \in db.games : Representative(db, g) /\ g.game_id \notin RowIds(Rows)

\* C17: a legacy search returns its rows by release date, non-increasing for
\* 'release_date_desc' and non-decreasing for 'release_date_asc'; the first row
\* of the descending result is not earlier than the first row of the ascending
\* result of the same search.
C17_LegacyOrder ==
    (last.op = "search" /\ ~RelevanceMode(last.filters)) =>
        /\ last.sort_by = "release_date_desc" =>
              /\ Descending(Rows)
              /\ \A asc \in SearchGamesLegacy(db, last.filters, "release_date_asc") :
                    Rows # <<>> => Rows[1].release_date >= asc[1].release_date
        /\ last.sort_by = "release_date_asc" => Ascending(Rows)

\* a descending legacy search that returned games of different release dates
C17_Witness ==
    /\ last.op = "search"
    /\ ~RelevanceMode(last.filters)
    /\ last.sort_by = "release_date_desc"
    /\ Len(Rows) >= 3
    /\ Rows[1].release_date > Rows[Len(Rows)].release_date

\* C18: every game a relevance-mode search returns has an attached tag that
\* equals a supplied genre tag with category 'genre' or a supplied preference
\* tag with category 'preference'.
C18_RelevanceMatchesCategory ==
    (last.op = "search" /\ RelevanceMode(last.filters)) =>
        \A i \in 1..Len(Rows) :
            SuppliedTags(last.filters) \cap AttachedTags(db, Rows[i].game_id) # {}

\* a relevance-mode search that returned a game and left out a representative
\* game carrying a supplied name under the other category only
C18_Witness ==
    /\ last.op = "search"
    /\ RelevanceMode(last.filters)
    /\ Len(Rows) >= 1
    /\ \E g \in db.games :
          /\ Representative(db, g)
          /\ g.game_id \notin RowIds(Rows)
          /\ \E t \in SuppliedTags(last.filters), a \in AttachedTags(db, g.game_id) :
                t[1] = a[1] /\ t[2] # a[2]

\* C19: every row a search returns reports the full platform set and the full
\* preference-tag set the game has in the store, whatever the filters.
C19_RowsReportFullSets ==
    last.op = "search" =>
        \A i \in 1..Len(Rows) :
            /\ ToSet(Rows[i].platforms) = PlatformNamesOf(db, Rows[i].game_id)
            /\ ToSet(Rows[i].preference_tags) =
                  TagNamesOf(db, Rows[i].game_id, "preference")

----------------------------------------------------------------------------
(* Properties of update_game, continued (Spec) *)

DeveloperKeys(d) == {<<g.game_id, g.developer_id>> : g \in d.games}

\* C20: a successful update_game with a developer sub-object rewrites the
\* developers row the game referenced before the call: no developers row is
\* added, no game changes its developer_id, and every game that referenced that
\* row reports the new name and country through get_game_by_id.
C20_DeveloperUpdatedInPlace ==
    (last.op = "update" /\ last.result = "true" /\ Has(last.p, "developer")) =>
        LET developer_id == GameRow(last.pre, last.game_id).developer_id
            new == last.p.developer
        IN /\ DeveloperIds(db) = DeveloperIds(last.pre)
           /\ Cardinality(db.developers) = Cardinality(last.pre.developers)
           /\ DeveloperKeys(db) = DeveloperKeys(last.pre)
           /\ \A r \in db.developers :
                 IF r.developer_id = developer_id
                 THEN r.name = new.name /\ r.country = new.country
                 ELSE r \in last.pre.developers
           /\ \A g \in last.pre.games :
                 g.developer_id = developer_id =>
                    LET seen == GetGameById(db, g.game_id)
                    IN /\ seen.found
                       /\ seen.developer.name = new.name
                       /\ seen.developer.country = new.country

\* a successful update_game that renamed a developer two games reference
C20_Witness ==
    /\ last.op = "update"
    /\ last.result = "true"
    /\ Has(last.p, "developer")
    /\ LET developer_id == GameRow(last.pre, last.game_id).developer_id
       IN /\ Cardinality({g \in last.pre.games : g.developer_id = developer_id}) >= 2
          /\ \E r \in last.pre.developers :
                /\ r.developer_id = developer_id
                /\ r.country # last.p.developer.country
    /\ Cardinality(db.developers) >= 2

----------------------------------------------------------------------------
(* Properties of update_game, checked under UpdateSpec *)

GenreKeys(d) == {<<g.game_id, g.genre_id>> : g \in d.games}

UpdateSucceeded == last.op = "update" /\ last.result = "true"

\* C21: a successful update_game that resolves the genre name N either finds a
\* genres row named N, and then changes only the game's genre_id to that row,
\* renaming and creating no genres row; or finds none, and then renames the
\* genres row the game referenced, changes no genre_id, and every game that
\* references the row reports genre N.
C21_GenreRepointOrRename ==
    UpdateSucceeded =>
        LET N == UpdateGenreName(last.p)
            pre == last.pre
            old == GameRow(pre, last.game_id).genre_id
        IN IF GenreKeyTaken(pre, N)
           THEN /\ db.genres = pre.genres
                /\ GameRow(db, last.game_id).genre_id = SelectGenreId(pre, N)
                /\ \A g \in db.games :
                      g.game_id # last.game_id =>
                         g.genre_id = GameRow(pre, g.game_id).genre_id
           ELSE /\ db.genres =
                      {IF r.genre_id = old THEN [r EXCEPT !.name = N] ELSE r :
                          r \in pre.genres}
                /\ GenreIds(db) = GenreIds(pre)
                /\ GenreKeys(db) = GenreKeys(pre)
                /\ \A g \in pre.games :
                      g.genre_id = old => GetGameById(db, g.game_id).genre.name = N

\* a successful update_game with an explicit genre name that no genres row had,
\* on a game whose genres row another game references too
C21_Witness ==
    /\ UpdateSucceeded
    /\ Has(last.p, "genre")
    /\ ~GenreKeyTaken(last.pre, last.p.genre)
    /\ \E g \in last.pre.games :
          /\ g.game_id # last.game_id
          /\ g.genre_id = GameRow(last.pre, last.game_id).genre_id

\* C22: after a successful update_game whose payload has a platforms list, the
\* platforms attached to the game are exactly the names of the list (none for
\* an empty list); without a platforms key the memberships are unchanged.
C22_PlatformsReplaced ==
    UpdateSucceeded =>
        IF Has(last.p, "platforms")
        THEN /\ PlatformNamesOf(db, last.game_id) = Names(last.p.platforms)
             /\ Cardinality(GamePlatformIds(db, last.game_id))
                    = Cardinality(Names(last.p.platforms))
        ELSE GamePlatformIds(db, last.game_id) = GamePlatformIds(last.pre, last.game_id)

\* a successful update_game that replaced the platforms of a game by a list
\* that shares no name with them and brings a platform the store did not have
C22_Witness ==
    /\ UpdateSucceeded
    /\ Has(last.p, "platforms")
    /\ last.p.platforms # <<>>
    /\ PlatformNamesOf(last.pre, last.game_id) # {}
    /\ PlatformNamesOf(last.pre, last.game_id) \cap Names(last.p.platforms) = {}
    /\ \E name \in Names(last.p.platforms) : ~PlatformKeyTaken(last.pre, name)

\* C23: after a successful update_game whose payload has genre_tags or
\* preference_tags, the genre tags of the game are the supplied genre_tags and
\* its preference tags the supplied preference_tags, a list that is not supplied
\* counting as empty; with neither key the tag memberships are unchanged.
C23_TagsReplaced ==
    UpdateSucceeded =>
        IF Has(last.p, "genre_tags") \/ Has(last.p, "preference_tags")
        THEN /\ TagNamesOf(db, last.game_id, "genre") =
                    (IF Has(last.p, "genre_tags") THEN Names(last.p.genre_tags) ELSE {})
             /\ TagNamesOf(db, last.game_id, "preference") =
                    (IF Has(last.p, "preference_tags")
                     THEN Names(last.p.preference_tags) ELSE {})
             /\ \A j \in db.game_tags : j[1] = last.game_id => j[2] \in TagIds(db)
        ELSE GameTagIds(db, last.game_id) = GameTagIds(last.pre, last.game_id)

\* a successful update_game with preference_tags only, on a game that had
\* genre tags
C23_Witness ==
    /\ UpdateSucceeded
    /\ Has(last.p, "preference_tags")
    /\ ~Has(last.p, "genre_tags")
    /\ last.p.preference_tags # <<>>
    /\ TagNamesOf(last.pre, last.game_id, "genre") # {}
    /\ TagNamesOf(last.pre, last.game_id, "preference") # Names(last.p.preference_tags)

GenreKeysOnly(p) == p.keys # {} /\ p.keys \subseteq {"genre", "genre.name", "genre_tags"}

\* C24: update_game resolves the genre name of a payload as create_game does:
\* an update of an existing game with genre keys only, no store fault occurring,
\* succeeds and leaves the game with the genre name create_game resolves.
C24_SameGenreRule ==
    (last.op = "update" /\ last.game_id \in GameIds(last.pre) /\ ~last.faulted
        /\ GenreKeysOnly(last.p)) =>
        /\ last.result = "true"
        /\ GetGameById(db, last.game_id).genre.name = CreateGenreName(last.p)

----------------------------------------------------------------------------
(* Properties of the dimension tables (Spec) *)

DimensionIdsKept(before, after) ==
    /\ DeveloperIds(before) \subseteq DeveloperIds(after)
    /\ GenreIds(before) \subseteq GenreIds(after)
    /\ PlatformIds(before) \subseteq PlatformIds(after)
    /\ TagIds(before) \subseteq TagIds(after)

UnreferencedPlatforms(d) ==
    {r \in d.platforms : ~\E j \in d.game_platforms : j[2] = r.platform_id}

UnreferencedTags(d) ==
    {r \in d.preferences : ~\E j \in d.game_tags : j[2] = r.tag_id}

\* C25: no create_game, update_game or delete_game call removes a row of
\* developers, genres, platforms or preferences: after every call each of these
\* tables holds every row id it held before the call.
C25_DimensionsNeverShrink ==
    last.op \in {"create", "update", "delete"} =>
        /\ DimensionIdsKept(last.pre, db)
        /\ DimensionIdsKept(last.pre, committed)

\* a delete_game that left a platform and a tag referenced by no game
C25_Witness ==
    /\ last.op = "delete"
    /\ last.result = "true"
    /\ UnreferencedPlatforms(db) # UnreferencedPlatforms(last.pre)
    /\ UnreferencedTags(db) # UnreferencedTags(last.pre)
    /\ db.games # {}

----------------------------------------------------------------------------
(* Properties of search_games, continued (SearchSpec) *)

\* the game itself has what the supplied filters ask for
SatisfiesFilters(d, f, g) ==
    /\ Supplied(f, "platform") => f.platform \in PlatformNamesOf(d, g.game_id)
    /\ Supplied(f, "country") =>
          \E r \in d.developers : r.developer_id = g.developer_id /\ r.country = f.country
    /\ IF RelevanceMode(f)
       THEN SuppliedTags(f) \cap AttachedTags(d, g.game_id) # {}
       ELSE /\ Supplied(f, "genre") =>
                  \E r \in d.genres : r.genre_id = g.genre_id /\ r.name = f.genre
            /\ Supplied(f, "preference") =>
                  f.preference \in TagNamesOf(d, g.game_id, "preference")

\* C26: when the lowest-id game of a title does not satisfy the supplied
\* filters, a search returns no row of that title, whether or not a game of the
\* same title with a higher id satisfies them.
C26_RepresentativeBeforeFilters ==
    last.op = "search" =>
        \A g \in db.games :
            (Representative(db, g) /\ ~SatisfiesFilters(db, last.filters, g)) =>
                \A i \in 1..Len(Rows) : Rows[i].title # g.title

\* a search whose filters the lowest-id game of a title fails while a game of
\* the same title with a higher id satisfies them
C26_Witness ==
    /\ last.op = "search"
    /\ \E g, h \in db.games :
          /\ g.title = h.title
          /\ g.game_id < h.game_id
          /\ Representative(db, g)
          /\ ~SatisfiesFilters(db, last.filters, g)
          /\ SatisfiesFilters(db, last.filters, h)
          /\ \A i \in 1..Len(Rows) : Rows[i].title # g.title
    /\ Len(Rows) >= 1

----------------------------------------------------------------------------
(* Properties of reads inside an open write (InterleavedSpec) *)

\* C27: a transaction() scope left by an exception leaves no statement of its
\* body in the tables, committed or seen by the connection, also when reads
\* were issued on the connection while the scope was open.
C27_ReadKeepsWriteAtomic ==
    (last.op = "scope" /\ last.kind = "transaction" /\ last.pc = "exited"
        /\ last.exc # NoException) =>
        /\ committed = last.pre
        /\ db = last.pre

----------------------------------------------------------------------------
(* Properties of the connection (ConnectionSpec) *)

OpeningCalls == {"connect", "enter", "get_cursor", "transaction", "execute_query"}

\* C28: a DatabaseManager holds at most one open connection, the one in
\* _connection: a call that connects opens one only when none is held, every
\* cursor made since the last close() is on the held connection, close() releases
\* it and changes nothing when none is held, and the first connecting call after
\* a close() opens a new connection.
C28_OneConnection ==
    last.op = "manager" =>
        /\ Cardinality(last.open) <= 1
        /\ last.open = (IF last.connection = 0 THEN {} ELSE {last.connection})
        /\ last.used \subseteq {last.connection}
        /\ last.call \in OpeningCalls =>
              IF last.before.connection # 0
              THEN last.connection = last.before.connection
                   /\ last.made = last.before.made
              ELSE last.made = last.before.made + 1
                   /\ last.connection = last.made
                   /\ last.connection \notin last.before.open
        /\ last.call \in {"close", "exit"} =>
              /\ last.connection = 0
              /\ last.open = {}
              /\ last.made = last.before.made

\* a cursor requested after a close(): the second connection is opened
C28_Witness ==
    /\ last.op = "manager"
    /\ last.call = "transaction"
    /\ last.before.connection = 0
    /\ last.made = 2
    /\ last.connection = 2
    /\ last.used = {2}

----------------------------------------------------------------------------
(* Properties of seeding (SeedSpec) *)

\* C29: a seed_games_data call that raises leaves the store as it was before
\* the call: no game row, junction row or dimension row of that call remains,
\* those of the games before the failing one included.
C29_SeedAllOrNothing ==
    (last.op = "seed" /\ last.raised) =>
        /\ committed = last.pre
        /\ db = last.pre

----------------------------------------------------------------------------
(* Properties of get_last_insert_id (ChangesSpec) *)

\* C30: after any sequence of inserts, updates and deletes through the manager,
\* get_last_insert_id() returns the row id of the most recently inserted row.
C30_LastInsertId ==
    (last.op = "changes" /\ last.call = "get_last_insert_id" /\ last.lastrowid # 0) =>
        last.result = last.lastrowid

====
